---- MODULE Spec2Model ----
(***************************************************************************)
(* Model of the campus-app cloud functions: five scheduled ingestion jobs  *)
(* (get_live_parking, get_calendar_events, get_organization_events,        *)
(* get_weather, get_live_campus_busyness) and the records they keep in the *)
(* document store.                                                         *)
(*                                                                         *)
(* Conventions.  A Python string that the code takes apart is a sequence   *)
(* of one-character strings.  An optional value is a sequence of length    *)
(* at most one: None == <<>>, a present value x is <<x>>.  A stored        *)
(* record is a function from field names to values; a stored collection   *)
(* is a function from keys to records.                                     *)
(***************************************************************************)
EXTENDS Integers, Sequences, FiniteSets, TLC

VARIABLES
    now,                 \* the wall clock, in ticks
    \* ---- liveParking (Realtime Database) and get_live_parking's frame
    lots,                \* liveParking/lots : key -> stored lot
    parkingLastUpdated,  \* liveParking/lastUpdated, <<>> before the first write
    pPc,                 \* position of get_live_parking
    response,            \* decoded payload of fetch_parking_data
    parking_lots,        \* the list the loop iterates over
    pIdx,                \* index of the next lot of parking_lots
    current_lots,        \* snapshot read at line 95
    updated_lot_keys,    \* keys written so far by the loop
    obsolete_keys,       \* keys still to delete
    pDeleted,            \* keys this cycle has deleted so far
    pOutcome,            \* how the last cycle ended
    ab,                  \* record of the last abandoned reconciliation
    otherWrites,         \* isHidden values another writer stored while the cycle ran
    \* ---- events/calendarEvents, events/organizationEvents (Firestore)
    job,                 \* the event job under study: "calendar" or "organization"
    calendarEvents,      \* the stored document, <<>> while it does not exist
    organizationEvents,  \* the stored document, <<>> while it does not exist
    ePc,                 \* position of the event job
    raw_events,          \* what the fetch returned, while the job runs
    org_names,           \* the organization lookup's answer, <<>> when it failed
    eLast,               \* upstream data of the last cycle that wrote
    eOutcome,            \* how the last cycle ended
    \* ---- weather (Realtime Database) and get_weather's frame
    weather,             \* the stored record, <<>> while it does not exist
    wPc,                 \* position of get_weather
    wData,               \* decoded payload of fetch_weatherstem_data
    wOutcome,            \* how the last cycle ended
    \* ---- liveCampusBusyness and get_live_campus_busyness's frame
    busyLocations,       \* liveCampusBusyness/locations : id -> location
    busyLastUpdated,     \* liveCampusBusyness/lastUpdated
    bPc,                 \* position of get_live_campus_busyness
    locations,           \* the locations of the payload, while the job runs
    bBefore,             \* liveCampusBusyness as it was when the running cycle began
    bOutcome             \* how the last cycle ended

pvars == <<lots, parkingLastUpdated, pPc, response, parking_lots, pIdx,
           current_lots, updated_lot_keys, obsolete_keys, pDeleted, pOutcome, ab,
           otherWrites>>

evars == <<job, calendarEvents, organizationEvents, ePc, raw_events, org_names,
           eLast, eOutcome>>

wvars == <<weather, wPc, wData, wOutcome>>

bvars == <<busyLocations, busyLastUpdated, bPc, locations, bBefore, bOutcome>>

vars == <<now, pvars, evars, wvars, bvars>>

----------------------------------------------------------------------------
(* Bounds *)

MaxNow == 1
MaxLots == 2
MaxEvents == 2
MaxLocations == 2

----------------------------------------------------------------------------
(* Generic helpers *)

None == <<>>
Some(x) == <<x>>

EmptyMap == <<>>

Range(s) == {s[i] : i \in 1..Len(s)}

SeqsUpTo(S, n) == UNION {[1..k -> S] : k \in 0..n}

\* dict.get(key, default)
Get(d, f, default) == IF f \in DOMAIN d THEN d[f] ELSE default

----------------------------------------------------------------------------
(* Python string operations used by lot_key_from_name *)

lower(c) == CASE c = "A" -> "a" [] c = "B" -> "b" [] OTHER -> c
upper(c) == CASE c = "a" -> "A" [] c = "b" -> "B" [] OTHER -> c

str_lower(w) == [i \in 1..Len(w) |-> lower(w[i])]

\* str.capitalize(): first character upper-cased, the rest lower-cased
str_capitalize(w) == [i \in 1..Len(w) |-> IF i = 1 THEN upper(w[i]) ELSE lower(w[i])]

FirstWordLen(s) ==
    CHOOSE n \in 1..Len(s) :
        /\ \A i \in 1..n : s[i] # " "
        /\ (n = Len(s) \/ s[n + 1] = " ")

\* str.split(): the maximal runs of non-blank characters
RECURSIVE str_split(_)
str_split(s) ==
    IF s = <<>> THEN <<>>
    ELSE IF Head(s) = " " THEN str_split(Tail(s))
    ELSE LET n == FirstWordLen(s)
         IN  <<SubSeq(s, 1, n)>> \o str_split(SubSeq(s, n + 1, Len(s)))

RECURSIVE Concat(_)
Concat(ws) == IF ws = <<>> THEN <<>> ELSE Head(ws) \o Concat(Tail(ws))

\* words[0] raises IndexError when the name holds only blanks
KeyRaises(name) == str_split(name) = <<>>

lot_key_from_name(name) ==
    LET words == str_split(name)
    IN  str_lower(words[1])
          \o Concat([i \in 1..(Len(words) - 1) |-> str_capitalize(words[i + 1])])

----------------------------------------------------------------------------
(* Upstream values.  A raw JSON value is [t, v, s]: an integer v, a string *)
(* s, or null.                                                             *)

RawInt(n) == [t |-> "int", v |-> n, s |-> <<>>]
RawStr(cs) == [t |-> "str", v |-> 0, s |-> cs]
RawNull == [t |-> "null", v |-> 0, s |-> <<>>]

DigitVal(c) ==
    CASE c = "0" -> 0 [] c = "1" -> 1 [] c = "2" -> 2 [] c = "3" -> 3
      [] c = "4" -> 4 [] c = "5" -> 5 [] c = "6" -> 6 [] c = "7" -> 7
      [] c = "8" -> 8 [] c = "9" -> 9 [] OTHER -> -1

IsDigits(cs) == cs # <<>> /\ \A i \in 1..Len(cs) : DigitVal(cs[i]) >= 0

RECURSIVE DecVal(_)
DecVal(cs) ==
    IF cs = <<>> THEN 0
    ELSE 10 * DecVal(SubSeq(cs, 1, Len(cs) - 1)) + DigitVal(cs[Len(cs)])

\* parse_int(value, default=0): int(value), the default on ValueError/TypeError
parse_int(value) ==
    IF value.t = "int" THEN value.v
    ELSE IF value.t = "str" /\ IsDigits(value.s) THEN DecVal(value.s)
    ELSE 0

\* parse_coordinate: geocode is the list of the comma-separated parts of the
\* string between the parentheses, each part an optional number (<<>> when
\* float() rejects it); anything but two numbers yields None.
parse_coordinate(geocode) ==
    IF Len(geocode) = 2 /\ geocode[1] # None /\ geocode[2] # None
    THEN Some([lat |-> geocode[1][1], lng |-> geocode[2][1]])
    ELSE None

\* x or None, for a string x
OrNone(x) == IF x = "" THEN None ELSE Some(x)

----------------------------------------------------------------------------
(* get-live-parking: upstream payloads *)

RawLot(name, address, geocode, total, free, occ) ==
    [location_name |-> name, location_address |-> address, geocode |-> geocode,
     total_spaces |-> total, free_spaces |-> free, occupancy |-> occ]

\* The lots a fetch may list.  location_name <<>> stands for a missing or
\* empty name (line 101 treats both alike).  "A" and "a" derive the same key.
SampleLots ==
    { RawLot(<<"A">>, "1 Main", <<Some(35), Some(-78)>>,
             RawStr(<<"1", "0">>), RawInt(4), RawStr(<<"6", "0">>)),
      RawLot(<<"a">>, "", <<None>>, RawNull, RawStr(<<"n">>), RawInt(7)),
      RawLot(<<"A", " ", "b">>, "2 Oak", <<Some(36), None>>,
             RawInt(20), RawInt(20), RawInt(0)),
      RawLot(<<>>, "3 Elm", <<Some(1), Some(2)>>, RawInt(5), RawInt(5), RawInt(0)),
      RawLot(<<" ">>, "", <<None>>, RawInt(1), RawInt(1), RawInt(0)) }

\* Decoded payloads: a JSON object, a flat list of lots, or a list whose
\* first element is the list of lots.
Responses ==
    {[shape |-> sh, lots |-> ls] :
        sh \in {"dict", "flat", "nested"}, ls \in SeqsUpTo(SampleLots, MaxLots)}

\* Keys an outside writer may address
AdminKeys == {<<"a", "B">>}

NoAbandon == [active |-> FALSE, hidden |-> EmptyMap, deleted |-> {}]

----------------------------------------------------------------------------
(* get-live-parking: store operations and normalisation *)

\* A write that replaces the stored record instead of merging into it
DbSetInstead(old, data) == data

\* Reference.update(value): the given children replace the stored ones, the
\* other stored children stay
DbUpdate(old, data) ==
    [f \in DOMAIN old \cup DOMAIN data |-> IF f \in DOMAIN data THEN data[f] ELSE old[f]]

\* A delete that removes nothing
DbDeleteNothing(store, key) == store

\* Reference.delete() of one child of liveParking/lots
DbDelete(store, key) == [k \in DOMAIN store \ {key} |-> store[k]]

\* lots_ref.child(key).update(lot_data)
DbUpdateChild(store, key, data) ==
    [k \in DOMAIN store \cup {key} |->
        IF k = key THEN DbUpdate(Get(store, key, EmptyMap), data) ELSE store[k]]

\* build_lot_data without the carried-over flag
build_lot_data_reset_hidden(lot, current_data, key) ==
    [id |-> key,
     name |-> lot.location_name,
     location |-> [address |-> OrNone(lot.location_address),
                   coordinate |-> parse_coordinate(lot.geocode)],
     totalSpaces |-> parse_int(lot.total_spaces),
     availableSpaces |-> parse_int(lot.free_spaces),
     occupancy |-> parse_int(lot.occupancy),
     isHidden |-> FALSE]

build_lot_data(lot, current_data, key) ==
    [id |-> key,
     name |-> lot.location_name,
     location |-> [address |-> OrNone(lot.location_address),
                   coordinate |-> parse_coordinate(lot.geocode)],
     totalSpaces |-> parse_int(lot.total_spaces),
     availableSpaces |-> parse_int(lot.free_spaces),
     occupancy |-> parse_int(lot.occupancy),
     isHidden |-> Get(current_data, "isHidden", FALSE)]

\* The difference taken the wrong way round
ObsoleteKeysSwapped(current_keys, updated_keys) == updated_keys \ current_keys

\* obsolete_keys = current_lot_keys - updated_lot_keys
ObsoleteKeys(current_keys, updated_keys) == current_keys \ updated_keys

\* datetime.now(EASTERN).strftime(...)
Timestamp(t) == Some(t)

----------------------------------------------------------------------------
(* get_live_parking, one step per store round trip *)

ParkingLocals(pc, resp, plots, idx, cur, upd, obs, del) ==
    /\ pPc' = pc
    /\ response' = resp
    /\ parking_lots' = plots
    /\ pIdx' = idx
    /\ current_lots' = cur
    /\ updated_lot_keys' = upd
    /\ obsolete_keys' = obs
    /\ pDeleted' = del

ParkingReturn(outcome) ==
    /\ ParkingLocals("idle", None, <<>>, 0, EmptyMap, {}, {}, {})
    /\ otherWrites' = EmptyMap
    /\ pOutcome' = outcome

\* line 79: response = fetch_parking_data()
ParkingFetch ==
    /\ pPc = "idle"
    /\ \E r \in Responses :
          ParkingLocals("fetched", Some(r), <<>>, 0, EmptyMap, {}, {}, {})
    /\ UNCHANGED <<now, otherWrites, evars, wvars, bvars, lots, parkingLastUpdated, pOutcome, ab>>

\* line 31: raise_for_status / a timeout raises, caught at line 124
ParkingFetchFail ==
    /\ pPc = "idle"
    /\ ParkingReturn("error")
    /\ UNCHANGED <<now, evars, wvars, bvars, lots, parkingLastUpdated, ab>>

\* lines 83-87: not a non-empty list
ParkingBadFormat ==
    /\ pPc = "fetched"
    /\ response[1].shape = "dict" \/ (response[1].shape = "flat" /\ response[1].lots = <<>>)
    /\ ParkingReturn("badFormat")
    /\ UNCHANGED <<now, evars, wvars, bvars, lots, parkingLastUpdated, ab>>

\* lines 89-91: the list of lots is empty
ParkingEmpty ==
    /\ pPc = "fetched"
    /\ response[1].shape = "nested"
    /\ response[1].lots = <<>>
    /\ ParkingReturn("empty")
    /\ UNCHANGED <<now, evars, wvars, bvars, lots, parkingLastUpdated, ab>>

\* lines 93-97: read the stored lots
ParkingRead ==
    /\ pPc = "fetched"
    /\ response[1].shape # "dict"
    /\ response[1].lots # <<>>
    /\ ParkingLocals("loop", None, response[1].lots, 1, lots, {}, {}, {})
    /\ UNCHANGED <<now, otherWrites, evars, wvars, bvars, lots, parkingLastUpdated, pOutcome, ab>>

\* line 95 raises (the store is unreachable), caught at line 124
ParkingReadFail ==
    /\ pPc = "fetched"
    /\ ParkingReturn("error")
    /\ UNCHANGED <<now, evars, wvars, bvars, lots, parkingLastUpdated, ab>>

\* lines 100-103: a lot without a name is skipped
ParkingSkip ==
    /\ pPc = "loop"
    /\ pIdx <= Len(parking_lots)
    /\ parking_lots[pIdx].location_name = <<>>
    /\ pIdx' = pIdx + 1
    /\ UNCHANGED <<now, otherWrites, evars, wvars, bvars, lots, parkingLastUpdated, pPc, response, parking_lots,
                   current_lots, updated_lot_keys, obsolete_keys, pDeleted, pOutcome, ab>>

\* What the abandoned cycle found and did: the isHidden flag of each lot
\* stored before it, and the lots it had deleted
Abandoned ==
    [active |-> TRUE,
     hidden |-> [k \in DOMAIN current_lots |-> Get(current_lots[k], "isHidden", FALSE)],
     deleted |-> pDeleted]

\* line 105: lot_key_from_name raises IndexError on a blank name, caught at
\* line 124; the updates already made stay
ParkingKeyRaises ==
    /\ pPc = "loop"
    /\ pIdx <= Len(parking_lots)
    /\ parking_lots[pIdx].location_name # <<>>
    /\ KeyRaises(parking_lots[pIdx].location_name)
    /\ ParkingReturn("error")
    /\ ab' = Abandoned
    /\ UNCHANGED <<now, evars, wvars, bvars, lots, parkingLastUpdated>>

\* lines 105-110: one lot is merged into the store
ParkingUpdate ==
    /\ pPc = "loop"
    /\ pIdx <= Len(parking_lots)
    /\ parking_lots[pIdx].location_name # <<>>
    /\ ~KeyRaises(parking_lots[pIdx].location_name)
    /\ LET lot == parking_lots[pIdx]
           key == lot_key_from_name(lot.location_name)
           current_data == Get(current_lots, key, EmptyMap)
           lot_data == build_lot_data(lot, current_data, key)
       IN  /\ updated_lot_keys' = updated_lot_keys \cup {key}
           /\ lots' = DbUpdateChild(lots, key, lot_data)
    /\ pIdx' = pIdx + 1
    /\ UNCHANGED <<now, otherWrites, evars, wvars, bvars, parkingLastUpdated, pPc, response, parking_lots,
                   current_lots, obsolete_keys, pDeleted, pOutcome, ab>>

\* line 113
ParkingLoopEnd ==
    /\ pPc = "loop"
    /\ pIdx > Len(parking_lots)
    /\ pPc' = "prune"
    /\ obsolete_keys' = ObsoleteKeys(DOMAIN current_lots, updated_lot_keys)
    /\ UNCHANGED <<now, otherWrites, evars, wvars, bvars, lots, parkingLastUpdated, response, parking_lots, pIdx,
                   current_lots, updated_lot_keys, pDeleted, pOutcome, ab>>

\* lines 114-116: one obsolete lot is deleted (a set is iterated in any order)
ParkingDelete ==
    /\ pPc = "prune"
    /\ \E key \in obsolete_keys :
          /\ lots' = DbDelete(lots, key)
          /\ obsolete_keys' = obsolete_keys \ {key}
          /\ pDeleted' = pDeleted \cup {key}
    /\ UNCHANGED <<now, otherWrites, evars, wvars, bvars, parkingLastUpdated, pPc, response, parking_lots, pIdx,
                   current_lots, updated_lot_keys, pOutcome, ab>>

\* lines 118-122: the timestamp is written and the cycle returns
ParkingStamp ==
    /\ pPc = "prune"
    /\ obsolete_keys = {}
    /\ parkingLastUpdated' = Timestamp(now)
    /\ ParkingReturn("done")
    /\ ab' = NoAbandon
    /\ UNCHANGED <<now, evars, wvars, bvars, lots>>

\* A store call of lines 110, 115 or 120 raises (caught at line 124) or the
\* platform ends the invocation: the cycle stops where it is
ParkingAbandon ==
    /\ pPc \in {"loop", "prune"}
    /\ ParkingReturn("error")
    /\ ab' = Abandoned
    /\ UNCHANGED <<now, evars, wvars, bvars, lots, parkingLastUpdated>>

----------------------------------------------------------------------------
(* The environment of the parking job *)

\* Another writer sets the persisted isHidden flag of a stored lot
AdminSetHidden ==
    /\ pPc = "idle"
    /\ \E key \in DOMAIN lots, b \in BOOLEAN :
          /\ Get(lots[key], "isHidden", ~b) # b
          /\ lots' = DbUpdateChild(lots, key, [isHidden |-> b])
    /\ ab' = NoAbandon
    /\ UNCHANGED <<now, otherWrites, evars, wvars, bvars, parkingLastUpdated, pPc, response, parking_lots, pIdx,
                   current_lots, updated_lot_keys, obsolete_keys, pDeleted, pOutcome>>

\* Another writer stores a field the feed does not supply
AdminSetNote ==
    /\ pPc = "idle"
    /\ \E key \in AdminKeys :
          /\ "note" \notin DOMAIN Get(lots, key, EmptyMap)
          /\ lots' = DbUpdateChild(lots, key, [note |-> "n"])
    /\ ab' = NoAbandon
    /\ UNCHANGED <<now, otherWrites, evars, wvars, bvars, parkingLastUpdated, pPc, response, parking_lots, pIdx,
                   current_lots, updated_lot_keys, obsolete_keys, pDeleted, pOutcome>>

Tick ==
    /\ now < MaxNow
    /\ now' = now + 1
    /\ UNCHANGED <<pvars, evars, wvars, bvars>>

\* Another writer sets the isHidden flag of a stored lot while a cycle is
\* between its read of the stored lots (line 95) and its update of that lot
\* (line 110); once in a cycle
OtherWriterSetsHidden ==
    /\ pPc = "loop"
    /\ otherWrites = EmptyMap
    /\ \E key \in DOMAIN current_lots \cap DOMAIN lots, b \in BOOLEAN :
          /\ key \notin updated_lot_keys
          /\ Get(lots[key], "isHidden", ~b) # b
          /\ lots' = DbUpdateChild(lots, key, [isHidden |-> b])
          /\ otherWrites' = (key :> b)
    /\ UNCHANGED <<now, evars, wvars, bvars, parkingLastUpdated, pPc, response, parking_lots, pIdx,
                   current_lots, updated_lot_keys, obsolete_keys, pDeleted, pOutcome, ab>>

----------------------------------------------------------------------------
(* Specification of the parking job *)

ParkingInit ==
    /\ lots = EmptyMap
    /\ parkingLastUpdated = None
    /\ pPc = "idle"
    /\ response = None
    /\ parking_lots = <<>>
    /\ pIdx = 0
    /\ current_lots = EmptyMap
    /\ updated_lot_keys = {}
    /\ obsolete_keys = {}
    /\ pDeleted = {}
    /\ pOutcome = "none"
    /\ ab = NoAbandon
    /\ otherWrites = EmptyMap

EventsInit ==
    /\ calendarEvents = None
    /\ organizationEvents = None
    /\ ePc = "idle"
    /\ raw_events = None
    /\ org_names = None
    /\ eLast = None
    /\ eOutcome = "none"

WeatherInit ==
    /\ weather = None
    /\ wPc = "idle"
    /\ wData = None
    /\ wOutcome = "none"

BusynessInit ==
    /\ busyLocations = EmptyMap
    /\ busyLastUpdated = None
    /\ bPc = "idle"
    /\ locations = <<>>
    /\ bBefore = None
    /\ bOutcome = "none"

Init ==
    /\ now = 0
    /\ ParkingInit
    /\ job = "none"
    /\ EventsInit
    /\ WeatherInit
    /\ BusynessInit

get_live_parking ==
    \/ ParkingFetch
    \/ ParkingFetchFail
    \/ ParkingBadFormat
    \/ ParkingEmpty
    \/ ParkingRead
    \/ ParkingReadFail
    \/ ParkingSkip
    \/ ParkingKeyRaises
    \/ ParkingUpdate
    \/ ParkingLoopEnd
    \/ ParkingDelete
    \/ ParkingStamp
    \/ ParkingAbandon

Next ==
    \/ get_live_parking
    \/ AdminSetHidden
    \/ AdminSetNote

Spec == Init /\ [][Next]_vars

\* The parking job with the other writer also acting while a cycle runs
NextRace ==
    \/ Next
    \/ OtherWriterSetsHidden

SpecRace == Init /\ [][NextRace]_vars

----------------------------------------------------------------------------
(* Event jobs: values shared by get-calendar-events and                    *)
(* get-organization-events                                                 *)

EasternOffset == -5

\* A time string: one that datetime.fromisoformat accepts (ok), naming hour
\* `hour` of day `day` at UTC offset `off`, or one it rejects, whose text
\* begins with the date `day`.
TimeStr(ok, day, hour, off) == [ok |-> ok, day |-> day, hour |-> hour, off |-> off]

\* to_eastern(time_str), on an optional time string
to_eastern(time_str) ==
    IF time_str = None THEN None
    ELSE LET t == time_str[1]
             total == t.day * 24 + t.hour - t.off + EasternOffset
         IN  IF t.ok
             THEN Some(TimeStr(TRUE, total \div 24, total % 24, EasternOffset))
             ELSE time_str

\* datetime.now(EASTERN).date()
Today(t) == t

\* e.get("start") and e["start"].startswith(today_str)
StartsToday(e, today) == e.start # None /\ e.start[1].day = today

\* A description is a list of tokens: words, blanks, tags and escaped tags.
\* clean_html unescapes, drops the tags and strips the blanks at both ends.
IsTag(tok) == tok \in {"<p>", "&lt;b&gt;"}

RECURSIVE DropTags(_)
DropTags(toks) ==
    IF toks = <<>> THEN <<>>
    ELSE IF IsTag(Head(toks)) THEN DropTags(Tail(toks))
    ELSE <<Head(toks)>> \o DropTags(Tail(toks))

RECURSIVE StripLeft(_)
StripLeft(toks) ==
    IF toks # <<>> /\ Head(toks) = " " THEN StripLeft(Tail(toks)) ELSE toks

RECURSIVE StripRight(_)
StripRight(toks) ==
    IF toks # <<>> /\ toks[Len(toks)] = " "
    THEN StripRight(SubSeq(toks, 1, Len(toks) - 1)) ELSE toks

clean_html(html_str) == StripRight(StripLeft(DropTags(html_str)))

DigitChar(d) ==
    CASE d = 0 -> "0" [] d = 1 -> "1" [] d = 2 -> "2" [] d = 3 -> "3" [] d = 4 -> "4"
      [] d = 5 -> "5" [] d = 6 -> "6" [] d = 7 -> "7" [] d = 8 -> "8" [] OTHER -> "9"

RECURSIVE IntStr(_)
IntStr(n) == IF n < 10 THEN <<DigitChar(n)>> ELSE IntStr(n \div 10) \o <<DigitChar(n % 10)>>

\* What an f-string makes of e.get('id', ''): the text of the id, empty
\* when there is none
IdText(id) ==
    IF id = None THEN <<>>
    ELSE IF id[1].t = "int" THEN IntStr(id[1].v) ELSE id[1].s

\* {"lat": lat, "lng": lng} if lat and lng else None, on optional numbers
Coordinate(latitude, longitude) ==
    LET lat == IF latitude # None /\ latitude[1] # 0 THEN latitude ELSE None
        lng == IF longitude # None /\ longitude[1] # 0 THEN longitude ELSE None
    IN  IF lat # None /\ lng # None
        THEN Some([lat |-> lat[1], lng |-> lng[1]]) ELSE None

\* categories or None
ListOrNone(xs) == IF xs = <<>> THEN None ELSE Some(xs)

\* a or b, on strings
StrOr(a, b) == IF a # "" THEN a ELSE b

\* events_dict = {e["id"]: e for e in events}: the last event of an id stays
events_dict(events) ==
    [k \in {events[i].id : i \in 1..Len(events)} |->
        events[CHOOSE i \in 1..Len(events) :
                  /\ events[i].id = k
                  /\ \A j \in 1..Len(events) : events[j].id = k => j <= i]]

\* sum(1 for e in events if e.get("start") and e["start"].startswith(today_str))
today_count(events, today) ==
    Cardinality({i \in 1..Len(events) : StartsToday(events[i], today)})

\* A write that keeps only the events not stored yet
FirestoreSetOnlyNew(old, doc) ==
    LET had == IF old = None THEN {} ELSE DOMAIN old[1].items
    IN  Some([doc EXCEPT !.items = [k \in DOMAIN doc.items \ had |-> doc.items[k]]])

\* doc_ref.set(doc): the document is replaced whole
FirestoreSet(old, doc) == Some(doc)

ItemsOf(stored) == IF stored = None THEN EmptyMap ELSE stored[1].items

----------------------------------------------------------------------------
(* get-calendar-events *)

Instance(start, end, all_day) == [start |-> start, end |-> end, all_day |-> all_day]

\* The "event" object of a Localist item
LocalistEvent(id, title, description, instances, event_types, departments, lat, lng) ==
    [id |-> id, title |-> title, description |-> description,
     description_text |-> <<"txt">>, event_instances |-> instances,
     event_types |-> event_types, departments |-> departments,
     latitude |-> lat, longitude |-> lng,
     location_name |-> "Hall", address |-> "", localist_url |-> "", url |-> "u",
     photo_url |-> ""]

\* Upstream events.  The first two carry the ids 7 and "7"; the third has
\* no id; event types may repeat a name or lack it.
LocalistSamples ==
    { LocalistEvent(Some(RawInt(7)), "T1", <<"<p>", "hi", " ">>,
                    <<Instance(Some(TimeStr(TRUE, 1, 2, 0)), None, TRUE)>>,
                    <<Some("Arts"), Some("Arts")>>, <<Some("Math")>>, Some(35), Some(-78)),
      LocalistEvent(Some(RawStr(<<"7">>)), "T2", <<>>,
                    <<>>, <<>>, <<>>, Some(35), None),
      LocalistEvent(None, "T3", <<"&lt;b&gt;">>,
                    <<Instance(Some(TimeStr(FALSE, 0, 0, 0)), Some(TimeStr(TRUE, 0, 9, -5)), FALSE)>>,
                    <<None>>, <<None, Some("Law")>>, Some(0), Some(-78)),
      LocalistEvent(Some(RawInt(12)), "T4", <<"x">>,
                    <<Instance(Some(TimeStr(TRUE, 0, 9, -5)), None, FALSE)>>,
                    <<Some("Arts"), Some("Music")>>, <<>>, None, None) }

\* lines 75-78: every event type's name, "" for a missing one
LocalistCategories(event_types) ==
    [i \in 1..Len(event_types) |-> IF event_types[i] = None THEN "" ELSE event_types[i][1]]

\* format_event of get-calendar-events
format_localist_event(e) ==
    LET instance == IF e.event_instances # <<>> THEN Some(e.event_instances[1]) ELSE None
        categories == LocalistCategories(e.event_types)
        department == IF e.departments # <<>> THEN e.departments[1] ELSE None
        description == IF clean_html(e.description) # <<>>
                       THEN clean_html(e.description) ELSE e.description_text
    IN  [id |-> <<"localist_">> \o IdText(e.id),
         title |-> e.title,
         description |-> description,
         start |-> IF instance = None THEN None ELSE to_eastern(instance[1].start),
         end |-> IF instance = None THEN None ELSE to_eastern(instance[1].end),
         allDay |-> IF instance = None THEN FALSE ELSE instance[1].all_day,
         location |-> [name |-> OrNone(e.location_name),
                       address |-> OrNone(e.address),
                       coordinate |-> Coordinate(e.latitude, e.longitude)],
         url |-> OrNone(StrOr(e.localist_url, e.url)),
         imageUrl |-> OrNone(e.photo_url),
         source |-> "localist",
         categories |-> ListOrNone(categories),
         department |-> department]

LocalistEvents(raw) == [i \in 1..Len(raw) |-> format_localist_event(raw[i])]

\* lines 120-137: the document get_calendar_events writes
CalendarDoc(events, t) ==
    [items |-> events_dict(events),
     todayCount |-> today_count(events, Today(t)),
     lastUpdated |-> Timestamp(t)]

EventsLocals(pc, raw, names) ==
    /\ ePc' = pc
    /\ raw_events' = raw
    /\ org_names' = names

\* line 112: raw_events = fetch_localist_events(); a payload that is no JSON
\* object comes back as the empty list
CalendarFetch ==
    /\ job = "calendar"
    /\ ePc = "idle"
    /\ \E raw \in SeqsUpTo(LocalistSamples, MaxEvents) : EventsLocals("fetched", Some(raw), None)
    /\ UNCHANGED <<now, pvars, wvars, bvars, job, calendarEvents, organizationEvents, eLast, eOutcome>>

\* line 27 or 40 raises, caught at line 141
CalendarFetchFail ==
    /\ job = "calendar"
    /\ ePc = "idle"
    /\ eOutcome' = "error"
    /\ UNCHANGED <<now, pvars, wvars, bvars, job, calendarEvents, organizationEvents, ePc, raw_events,
                   org_names, eLast>>

\* lines 116-118
CalendarEmpty ==
    /\ job = "calendar"
    /\ ePc = "fetched"
    /\ raw_events[1] = <<>>
    /\ EventsLocals("idle", None, None)
    /\ eOutcome' = "empty"
    /\ UNCHANGED <<now, pvars, wvars, bvars, job, calendarEvents, organizationEvents, eLast>>

\* lines 113-139
CalendarWrite ==
    /\ job = "calendar"
    /\ ePc = "fetched"
    /\ raw_events[1] # <<>>
    /\ LET events == LocalistEvents(raw_events[1])
       IN  calendarEvents' = FirestoreSet(calendarEvents, CalendarDoc(events, now))
    /\ EventsLocals("idle", None, None)
    /\ eLast' = Some([raw |-> raw_events[1], names |-> None])
    /\ eOutcome' = "done"
    /\ UNCHANGED <<now, pvars, wvars, bvars, job, organizationEvents>>

\* line 133 raises (caught at line 141) or the invocation is ended
CalendarAbandon ==
    /\ job = "calendar"
    /\ ePc = "fetched"
    /\ EventsLocals("idle", None, None)
    /\ eOutcome' = "error"
    /\ UNCHANGED <<now, pvars, wvars, bvars, job, calendarEvents, organizationEvents, eLast>>

get_calendar_events ==
    \/ CalendarFetch
    \/ CalendarFetchFail
    \/ CalendarEmpty
    \/ CalendarWrite
    \/ CalendarAbandon

----------------------------------------------------------------------------
(* get-organization-events *)

EngageEvent(id, name, startsOn, theme, categories, org, lat, lng) ==
    [id |-> id, name |-> name, description |-> <<"<p>", "d">>,
     startsOn |-> startsOn, endsOn |-> None,
     address |-> [name |-> "Quad", address |-> "", line1 |-> "1 Rd",
                  latitude |-> lat, longitude |-> lng],
     theme |-> theme, categories |-> categories, imageUrl |-> "", benefits |-> <<>>,
     submittedByOrganizationId |-> org]

\* Upstream events.  The first and third carry the ids 3 and "3"; the second
\* has no id; categories may repeat the theme or each other, or lack a name.
EngageSamples ==
    { EngageEvent(Some(RawInt(3)), "N1", Some(TimeStr(TRUE, 1, 2, 0)), "Social",
                  <<Some("Social"), Some("Food"), Some("Food"), None>>, Some(5),
                  Some(35), Some(-78)),
      EngageEvent(None, "N2", None, "", <<>>, None, None, None),
      EngageEvent(Some(RawStr(<<"3">>)), "N3", Some(TimeStr(TRUE, 0, 9, -5)), "",
                  <<Some("Food"), Some("")>>, Some(6), Some(35), Some(0)) }

\* The organization lookup's answers: names by id, or <<>> when the lookup
\* failed or reported an error (lines 62-69 return {} then)
OrgAnswers == {None, Some((5 :> "Club")), Some((5 :> "Club") @@ (6 :> "Team"))}

OrgMap(names) == IF names = None THEN EmptyMap ELSE names[1]

\* lines 97-104: the theme, then each named category not yet listed
RECURSIVE MergeCategories(_, _)
MergeCategories(acc, cats) ==
    IF cats = <<>> THEN acc
    ELSE LET name == IF Head(cats) = None THEN "" ELSE Head(cats)[1]
         IN  IF name # "" /\ name \notin Range(acc)
             THEN MergeCategories(Append(acc, name), Tail(cats))
             ELSE MergeCategories(acc, Tail(cats))

EngageCategories(item) ==
    MergeCategories(IF item.theme # "" THEN <<item.theme>> ELSE <<>>, item.categories)

\* format_event of get-organization-events
format_engage_event(item, org_map) ==
    LET address == item.address
        org_id == item.submittedByOrganizationId
        organization == IF org_id # None /\ org_id[1] \in DOMAIN org_map
                        THEN Some(org_map[org_id[1]]) ELSE None
    IN  [id |-> <<"engage_">> \o IdText(item.id),
         title |-> item.name,
         description |-> clean_html(item.description),
         start |-> to_eastern(item.startsOn),
         end |-> to_eastern(item.endsOn),
         allDay |-> FALSE,
         location |-> [name |-> OrNone(address.name),
                       address |-> OrNone(StrOr(address.address, address.line1)),
                       coordinate |-> Coordinate(address.latitude, address.longitude)],
         url |-> None,
         imageUrl |-> OrNone(item.imageUrl),
         source |-> "engage",
         categories |-> ListOrNone(EngageCategories(item)),
         benefits |-> ListOrNone(item.benefits),
         organization |-> organization]

EngageEvents(raw, org_map) == [i \in 1..Len(raw) |-> format_engage_event(raw[i], org_map)]

\* lines 156-173: the document get_organization_events writes
OrganizationDoc(events, t) ==
    [items |-> events_dict(events),
     todayCount |-> today_count(events, Today(t)),
     lastUpdated |-> Timestamp(t)]

\* line 136: raw_events = fetch_engage_events(); an error envelope comes
\* back as the empty list
OrganizationFetch ==
    /\ job = "organization"
    /\ ePc = "idle"
    /\ \E raw \in SeqsUpTo(EngageSamples, MaxEvents) : EventsLocals("fetched", Some(raw), None)
    /\ UNCHANGED <<now, pvars, wvars, bvars, job, calendarEvents, organizationEvents, eLast, eOutcome>>

\* line 38 raises, caught at line 177
OrganizationFetchFail ==
    /\ job = "organization"
    /\ ePc = "idle"
    /\ eOutcome' = "error"
    /\ UNCHANGED <<now, pvars, wvars, bvars, job, calendarEvents, organizationEvents, ePc, raw_events,
                   org_names, eLast>>

\* lines 139-141
OrganizationEmpty ==
    /\ job = "organization"
    /\ ePc = "fetched"
    /\ raw_events[1] = <<>>
    /\ EventsLocals("idle", None, None)
    /\ eOutcome' = "empty"
    /\ UNCHANGED <<now, pvars, wvars, bvars, job, calendarEvents, organizationEvents, eLast>>

\* lines 143-151: org_map = fetch_organization_names(org_ids)
OrganizationNames ==
    /\ job = "organization"
    /\ ePc = "fetched"
    /\ raw_events[1] # <<>>
    /\ \E names \in OrgAnswers : EventsLocals("named", raw_events, names)
    /\ UNCHANGED <<now, pvars, wvars, bvars, job, calendarEvents, organizationEvents, eLast, eOutcome>>

\* lines 153-175
OrganizationWrite ==
    /\ job = "organization"
    /\ ePc = "named"
    /\ LET events == EngageEvents(raw_events[1], OrgMap(org_names))
       IN  organizationEvents' = FirestoreSet(organizationEvents, OrganizationDoc(events, now))
    /\ EventsLocals("idle", None, None)
    /\ eLast' = Some([raw |-> raw_events[1], names |-> org_names])
    /\ eOutcome' = "done"
    /\ UNCHANGED <<now, pvars, wvars, bvars, job, calendarEvents>>

\* line 169 raises (caught at line 177) or the invocation is ended
OrganizationAbandon ==
    /\ job = "organization"
    /\ ePc \in {"fetched", "named"}
    /\ EventsLocals("idle", None, None)
    /\ eOutcome' = "error"
    /\ UNCHANGED <<now, pvars, wvars, bvars, job, calendarEvents, organizationEvents, eLast>>

get_organization_events ==
    \/ OrganizationFetch
    \/ OrganizationFetchFail
    \/ OrganizationEmpty
    \/ OrganizationNames
    \/ OrganizationWrite
    \/ OrganizationAbandon

----------------------------------------------------------------------------
(* Specification of the event jobs.  The two jobs share no stored entity,  *)
(* so a behaviour runs one of them.                                        *)

InitEvents ==
    /\ now = 0
    /\ ParkingInit
    /\ job \in {"calendar", "organization"}
    /\ EventsInit
    /\ WeatherInit
    /\ BusynessInit

NextEvents ==
    \/ get_calendar_events
    \/ get_organization_events
    \/ Tick

SpecEvents == InitEvents /\ [][NextEvents]_vars

----------------------------------------------------------------------------
(* get-weather *)

\* The upstream readings as extract_readings returns them: sensor_type ->
\* value, holding the sensors that reported.  Each argument is an optional
\* integer.
MakeReadings(t, wc, hi, ws, h, wv) ==
    LET given == ("Thermometer" :> t) @@ ("Wind Chill" :> wc) @@ ("Heat Index" :> hi)
                   @@ ("Anemometer" :> ws) @@ ("Hygrometer" :> h) @@ ("Wind Vane" :> wv)
    IN  [k \in {s \in DOMAIN given : given[s] # None} |-> given[k][1]]

TemperatureSamples == {None, Some(0), Some(50), Some(51), Some(79), Some(80)}

ReadingsSamples ==
    {MakeReadings(t, wc, hi, ws, h, wv) :
        t \in TemperatureSamples,
        wc \in {None, Some(40)},
        hi \in {None, Some(90)},
        ws \in {None, Some(3), Some(4)},
        h \in {None, Some(40), Some(41)},
        wv \in {Some(191)}}

\* Decoded payloads: a list of stations, one station object, or anything
\* else; `camera` is the image of the station's Cloud Camera, if any
WeatherPayloads ==
    {[shape |-> "list", readings |-> r, camera |-> None] : r \in ReadingsSamples}
    \cup {[shape |-> "other", readings |-> EmptyMap, camera |-> None],
          [shape |-> "dict", readings |-> MakeReadings(Some(81), None, Some(90), None, Some(41), None),
           camera |-> Some("img")]}

\* round(float(x)) of an integer reading
Round(x) == x

Directions ==
    <<"N", "NNE", "NE", "ENE", "E", "ESE", "SE", "SSE",
      "S", "SSW", "SW", "WSW", "W", "WNW", "NW", "NNW">>

\* round(degrees / 22.5) % 16; for whole degrees no quotient lies half way
wind_direction_label(degrees) == Directions[(((4 * degrees + 45) \div 90) % 16) + 1]

\* determine_feels_like with the first comparison strict
determine_feels_like_strict(temperature, wind_chill, heat_index, wind_speed, humidity) ==
    IF temperature < 50 /\ wind_speed > 3 THEN Round(wind_chill)
    ELSE IF temperature >= 80 /\ humidity > 40 THEN Round(heat_index)
    ELSE Round(temperature)

determine_feels_like(temperature, wind_chill, heat_index, wind_speed, humidity) ==
    IF temperature <= 50 /\ wind_speed > 3 THEN Round(wind_chill)
    ELSE IF temperature >= 80 /\ humidity > 40 THEN Round(heat_index)
    ELSE Round(temperature)

\* readings.get("Thermometer", 70): a default in place of the missing reading
ThermometerOrDefault(readings) == Some(Get(readings, "Thermometer", 70))

\* temperature = readings.get("Thermometer")
Thermometer(readings) ==
    IF "Thermometer" \in DOMAIN readings THEN Some(readings["Thermometer"]) ELSE None

\* `not temperature`: no reading, or a reading of 0
TemperatureMissing(temperature) ==
    IF temperature = None THEN TRUE ELSE temperature[1] = 0

\* get_sunrise_sunset() for the civil date; both None when it raised
SunTimes(ok, t) ==
    IF ok THEN [sunrise |-> Some(<<Today(t), "rise">>), sunset |-> Some(<<Today(t), "set">>)]
    ELSE [sunrise |-> None, sunset |-> None]

\* lines 106-146
weather_data(readings, image_url, sun, t) ==
    LET temperature == Thermometer(readings)[1]
        base ==
          [temperature |-> Round(temperature),
           feelsLike |-> determine_feels_like(temperature,
                                              Get(readings, "Wind Chill", temperature),
                                              Get(readings, "Heat Index", temperature),
                                              Get(readings, "Anemometer", 0),
                                              Get(readings, "Hygrometer", 0)),
           humidity |-> Get(readings, "Hygrometer", 0),
           wind |-> [speed |-> Get(readings, "Anemometer", 0),
                     gust |-> Get(readings, "10 Minute Wind Gust", 0),
                     direction |-> wind_direction_label(Get(readings, "Wind Vane", 0)),
                     degrees |-> Get(readings, "Wind Vane", 0)],
           uvIndex |-> Get(readings, "UV Radiation Sensor", 0),
           rain |-> [rate |-> Get(readings, "Rain Rate", 0),
                     total |-> Get(readings, "Rain Gauge", 0)],
           solarRadiation |-> Get(readings, "Solar Radiation Sensor", 0),
           sunrise |-> sun.sunrise,
           sunset |-> sun.sunset,
           lastUpdated |-> Timestamp(t)]
    IN  IF image_url # None THEN base @@ [imageUrl |-> image_url[1]] ELSE base

WeatherReturn(outcome) ==
    /\ wPc' = "idle"
    /\ wData' = None
    /\ wOutcome' = outcome

\* line 86: data = fetch_weatherstem_data()
WeatherFetch ==
    /\ wPc = "idle"
    /\ \E d \in WeatherPayloads : wData' = Some(d)
    /\ wPc' = "fetched"
    /\ UNCHANGED <<now, pvars, evars, bvars, weather, wOutcome>>

\* line 37 raises, caught at line 151
WeatherFetchFail ==
    /\ wPc = "idle"
    /\ WeatherReturn("error")
    /\ UNCHANGED <<now, pvars, evars, bvars, weather>>

\* lines 90-96
WeatherBadFormat ==
    /\ wPc = "fetched"
    /\ wData[1].shape = "other"
    /\ WeatherReturn("badFormat")
    /\ UNCHANGED <<now, pvars, evars, bvars, weather>>

\* lines 101-104
WeatherNoTemperature ==
    /\ wPc = "fetched"
    /\ wData[1].shape # "other"
    /\ TemperatureMissing(Thermometer(wData[1].readings))
    /\ WeatherReturn("noTemperature")
    /\ UNCHANGED <<now, pvars, evars, bvars, weather>>

\* lines 106-149
WeatherWrite ==
    /\ wPc = "fetched"
    /\ wData[1].shape # "other"
    /\ ~TemperatureMissing(Thermometer(wData[1].readings))
    /\ \E sunOk \in BOOLEAN :
          weather' = Some(weather_data(wData[1].readings, wData[1].camera,
                                       SunTimes(sunOk, now), now))
    /\ WeatherReturn("done")
    /\ UNCHANGED <<now, pvars, evars, bvars>>

\* line 148 raises (caught at line 151) or the invocation is ended
WeatherAbandon ==
    /\ wPc = "fetched"
    /\ WeatherReturn("error")
    /\ UNCHANGED <<now, pvars, evars, bvars, weather>>

get_weather ==
    \/ WeatherFetch
    \/ WeatherFetchFail
    \/ WeatherBadFormat
    \/ WeatherNoTemperature
    \/ WeatherWrite
    \/ WeatherAbandon

InitWeather == Init

NextWeather ==
    \/ get_weather
    \/ Tick

SpecWeather == InitWeather /\ [][NextWeather]_vars

----------------------------------------------------------------------------
(* get-live-campus-busyness *)

SubLoc(id, name, busyness) ==
    [id |-> id, name |-> name, busyness |-> busyness, capacity |-> 10, isOpen |-> TRUE]

WaitzLocation(id, name, busyness, subLocs, bestLocations) ==
    [id |-> id, name |-> name, busyness |-> busyness, capacity |-> 100, isOpen |-> TRUE,
     subLocs |-> subLocs, bestLocations |-> bestLocations]

\* Upstream locations.  busyness <<>> is a location that reports none; the
\* ids 1 and "1" have the same text; the third location has no id.
WaitzSamples ==
    { WaitzLocation(Some(RawInt(1)), "Library", Some(80),
                    <<SubLoc(Some(11), Some("Floor 1"), Some(79)),
                      SubLoc(Some(12), Some("Floor 2"), None)>>, <<Some(12)>>),
      WaitzLocation(Some(RawStr(<<"1">>)), "Gym", Some(24),
                    <<SubLoc(Some(21), Some("Pool"), Some(25))>>, <<>>),
      WaitzLocation(None, "Lab", Some(30), <<>>, <<Some(5)>>),
      WaitzLocation(Some(RawInt(4)), "Union", Some(50),
                    <<SubLoc(Some(41), None, Some(49)),
                      SubLoc(Some(42), Some("Cafe"), Some(100))>>, <<Some(41)>>),
      WaitzLocation(Some(RawInt(5)), "Commons", None,
                    <<SubLoc(Some(51), Some("Hall"), Some(0))>>, <<Some(99)>>) }

\* Decoded payloads: an object with the locations under "data", the list of
\* locations itself, or anything else
WaitzPayloads ==
    {[shape |-> sh, locations |-> ls] :
        sh \in {"dict", "list"}, ls \in SeqsUpTo(WaitzSamples, MaxLocations)}
    \cup {[shape |-> "other", locations |-> <<>>]}

\* occupancy_status with the top bucket starting above 80
occupancy_status_above(occupancy) ==
    IF occupancy > 80 THEN "veryHigh"
    ELSE IF occupancy >= 50 THEN "high"
    ELSE IF occupancy >= 25 THEN "moderate"
    ELSE "low"

occupancy_status(occupancy) ==
    IF occupancy >= 80 THEN "veryHigh"
    ELSE IF occupancy >= 50 THEN "high"
    ELSE IF occupancy >= 25 THEN "moderate"
    ELSE "low"

\* d.get("busyness", 0) on an optional number
OrZero(x) == IF x = None THEN 0 ELSE x[1]

build_sublocation(subloc) ==
    LET occupancy == OrZero(subloc.busyness)
    IN  [id |-> subloc.id,
         name |-> IF subloc.name = None THEN "" ELSE subloc.name[1],
         occupancy |-> occupancy,
         capacity |-> subloc.capacity,
         isOpen |-> subloc.isOpen,
         status |-> occupancy_status(occupancy)]

\* lines 57-64: the name of the first sub-location the first hint names
BestSpot(sublocs, best_locations) ==
    IF best_locations # <<>> /\ sublocs # <<>>
         /\ \E i \in 1..Len(sublocs) : sublocs[i].id = best_locations[1]
    THEN sublocs[CHOOSE i \in 1..Len(sublocs) :
                    /\ sublocs[i].id = best_locations[1]
                    /\ \A j \in 1..Len(sublocs) : sublocs[j].id = best_locations[1] => i <= j].name
    ELSE None

build_location(location) ==
    LET sublocs == location.subLocs
        occupancy == OrZero(location.busyness)
    IN  [id |-> location.id,
         name |-> location.name,
         occupancy |-> occupancy,
         capacity |-> location.capacity,
         isOpen |-> location.isOpen,
         status |-> occupancy_status(occupancy),
         bestSpot |-> BestSpot(sublocs, location.bestLocations),
         subLocations |-> [i \in 1..Len(sublocs) |-> build_sublocation(sublocs[i])]]

\* `not loc_id`: no id, the number 0 or the empty string
NoLocId(id) ==
    IF id = None THEN TRUE
    ELSE IF id[1].t = "int" THEN id[1].v = 0 ELSE id[1].s = <<>>

\* lines 100-107: location_updates[str(loc_id)] = build_location(location);
\* the last location of an id text stays
location_updates(locs) ==
    LET kept == {i \in 1..Len(locs) : ~NoLocId(locs[i].id)}
    IN  [k \in {IdText(locs[i].id) : i \in kept} |->
            build_location(locs[CHOOSE i \in kept :
                                   /\ IdText(locs[i].id) = k
                                   /\ \A j \in kept : IdText(locs[j].id) = k => j <= i])]

BusyReturn(outcome) ==
    /\ bPc' = "idle"
    /\ locations' = <<>>
    /\ bBefore' = None
    /\ bOutcome' = outcome

\* lines 81-91: fetch, then the locations of an object or a list
BusyFetch ==
    /\ bPc = "idle"
    /\ \E d \in WaitzPayloads :
          /\ d.shape # "other"
          /\ d.locations # <<>>
          /\ locations' = d.locations
    /\ bBefore' = Some([locations |-> busyLocations, lastUpdated |-> busyLastUpdated])
    /\ bPc' = "fetched"
    /\ UNCHANGED <<now, pvars, evars, wvars, busyLocations, busyLastUpdated, bOutcome>>

\* line 23 raises, caught at line 118
BusyFetchFail ==
    /\ bPc = "idle"
    /\ BusyReturn("error")
    /\ UNCHANGED <<now, pvars, evars, wvars, busyLocations, busyLastUpdated>>

\* lines 89-91: neither an object nor a list
BusyBadFormat ==
    /\ bPc = "idle"
    /\ \E d \in WaitzPayloads : d.shape = "other"
    /\ BusyReturn("badFormat")
    /\ UNCHANGED <<now, pvars, evars, wvars, busyLocations, busyLastUpdated>>

\* lines 93-95: no location listed
BusyEmpty ==
    /\ bPc = "idle"
    /\ \E d \in WaitzPayloads : d.shape # "other" /\ d.locations = <<>>
    /\ BusyReturn("empty")
    /\ UNCHANGED <<now, pvars, evars, wvars, busyLocations, busyLastUpdated>>

\* lines 100-110: locations_ref.set(location_updates)
BusyWriteLocations ==
    /\ bPc = "fetched"
    /\ busyLocations' = location_updates(locations)
    /\ bPc' = "stamp"
    /\ UNCHANGED <<now, pvars, evars, wvars, busyLastUpdated, locations, bBefore, bOutcome>>

\* lines 113-116
BusyStamp ==
    /\ bPc = "stamp"
    /\ busyLastUpdated' = Timestamp(now)
    /\ BusyReturn("done")
    /\ UNCHANGED <<now, pvars, evars, wvars, busyLocations>>

\* line 110 or 114 raises (caught at line 118) or the invocation is ended
BusyAbandon ==
    /\ bPc \in {"fetched", "stamp"}
    /\ BusyReturn("error")
    /\ UNCHANGED <<now, pvars, evars, wvars, busyLocations, busyLastUpdated>>

get_live_campus_busyness ==
    \/ BusyFetch
    \/ BusyFetchFail
    \/ BusyBadFormat
    \/ BusyEmpty
    \/ BusyWriteLocations
    \/ BusyStamp
    \/ BusyAbandon

InitBusyness == Init

NextBusyness ==
    \/ get_live_campus_busyness
    \/ Tick

SpecBusyness == InitBusyness /\ [][NextBusyness]_vars

----------------------------------------------------------------------------
(* Properties of the parking job *)

\* The step on which a parking cycle runs to completion
ParkingCompletes == pPc = "prune" /\ pPc' = "idle" /\ pOutcome' = "done"

\* The step on which a parking cycle returns because the payload lists no lot
ParkingReturnsEmpty == pPc = "fetched" /\ pPc' = "idle" /\ pOutcome' = "empty"

\* All reconciliation writes of the cycle are made; only the timestamp is left
ParkingReconciled == pPc = "prune" /\ obsolete_keys = {}

NamedIdx(ls) ==
    {i \in 1..Len(ls) : ls[i].location_name # <<>> /\ ~KeyRaises(ls[i].location_name)}

FetchKeys(ls) == {lot_key_from_name(ls[i].location_name) : i \in NamedIdx(ls)}

LastIdx(ls, k) ==
    CHOOSE i \in NamedIdx(ls) :
        /\ lot_key_from_name(ls[i].location_name) = k
        /\ \A j \in NamedIdx(ls) : lot_key_from_name(ls[j].location_name) = k => j <= i

FreshFields == {"id", "name", "location", "totalSpaces", "availableSpaces", "occupancy"}

SuppliedFields == FreshFields \cup {"isHidden"}

\* The stored lot carries the normalised fields of the fetched lot
HoldsFresh(stored, lot, k) ==
    \A f \in FreshFields :
        f \in DOMAIN stored /\ stored[f] = build_lot_data(lot, EmptyMap, k)[f]

HiddenBefore(store, k) == Get(Get(store, k, EmptyMap), "isHidden", FALSE)

\* C1 as stated: after a parking cycle that completes on a fetch with a named
\* lot, the stored keys are exactly the keys of the named fetched lots, EVERY
\* fetched named lot is stored under its key with its freshly normalised
\* fields, and each stored lot's isHidden is the value stored before the
\* cycle (false when there was none).
C1_EveryLotStored ==
    [][(ParkingCompletes /\ NamedIdx(parking_lots) # {}) =>
          /\ DOMAIN lots' = FetchKeys(parking_lots)
          /\ \A i \in NamedIdx(parking_lots) :
                LET k == lot_key_from_name(parking_lots[i].location_name)
                IN  k \in DOMAIN lots' /\ HoldsFresh(lots'[k], parking_lots[i], k)
          /\ \A k \in DOMAIN lots' :
                /\ "isHidden" \in DOMAIN lots'[k]
                /\ lots'[k].isHidden = HiddenBefore(current_lots, k)]_vars

\* C1 amended: after a parking cycle that completes on a fetch with a named
\* lot, the stored keys are exactly the keys of the named fetched lots, each
\* key holds the freshly normalised fields of the LAST fetched lot deriving
\* it, and each stored lot's isHidden is the value stored before the cycle
\* (false when there was none).
C1_LastLotStored ==
    [][(ParkingCompletes /\ NamedIdx(parking_lots) # {}) =>
          /\ DOMAIN lots' = FetchKeys(parking_lots)
          /\ \A k \in DOMAIN lots' :
                /\ HoldsFresh(lots'[k], parking_lots[LastIdx(parking_lots, k)], k)
                /\ "isHidden" \in DOMAIN lots'[k]
                /\ lots'[k].isHidden = HiddenBefore(current_lots, k)]_vars

\* A reconciled cycle that kept a hidden lot hidden and met two fetched lots
\* deriving one key
C1_Witness ==
    /\ ParkingReconciled
    /\ \E k \in DOMAIN lots : k \in DOMAIN current_lots /\ lots[k].isHidden
    /\ Cardinality(NamedIdx(parking_lots)) > Cardinality(FetchKeys(parking_lots))

\* C2 as stated: when a cycle whose payload is well formed ends, a payload
\* listing zero lots included, every lot stored before the cycle and absent
\* from the fetch is gone from storage.
C2_PrunedAlsoOnEmptyFetch ==
    [][/\ ParkingCompletes =>
            \A k \in DOMAIN current_lots \ FetchKeys(parking_lots) : k \notin DOMAIN lots'
       /\ ParkingReturnsEmpty =>
            \A k \in DOMAIN lots : k \notin DOMAIN lots']_vars

\* C2 amended: when a cycle runs to completion (its fetch then lists at
\* least one lot), every lot stored before the cycle and absent from the
\* fetch is gone from storage.
C2_PrunedOnCompletion ==
    [][ParkingCompletes =>
          /\ parking_lots # <<>>
          /\ \A k \in DOMAIN current_lots \ FetchKeys(parking_lots) :
                k \notin DOMAIN lots']_vars

\* A reconciled cycle that has deleted a stale lot
C2_Witness ==
    /\ ParkingReconciled
    /\ pDeleted # {}
    /\ pDeleted \cap DOMAIN lots = {}

\* C3: a step of the parking cycle leaves every field it does not supply of
\* an already stored lot as it was, and touches no key that is neither
\* derived from the fetch nor pruned (stored before the cycle and absent
\* from the fetch).
C3_PartialMerge ==
    [][pPc # "idle" =>
          /\ \A k \in DOMAIN lots \cap DOMAIN lots' :
                \A f \in DOMAIN lots[k] \ SuppliedFields :
                    f \in DOMAIN lots'[k] /\ lots'[k][f] = lots[k][f]
          /\ \A k \in DOMAIN lots \cup DOMAIN lots' :
                (k \notin DOMAIN lots \/ k \notin DOMAIN lots' \/ lots'[k] # lots[k]) =>
                    \/ k \in FetchKeys(parking_lots)
                    \/ k \in DOMAIN current_lots \ FetchKeys(parking_lots)]_vars

\* The cycle has merged a fetched lot into a stored lot that carries a field
\* the feed does not supply
C3_Witness ==
    /\ pPc = "loop"
    /\ \E k \in updated_lot_keys :
          /\ k \in DOMAIN current_lots
          /\ "note" \in DOMAIN current_lots[k]
          /\ "note" \in DOMAIN lots[k]
          /\ lots[k].name # <<>>

\* C10 as stated: after the completed cycle that follows an abandoned one,
\* the stored keys are the keys of the later fetch's named lots, each with
\* fresh fields and with the isHidden value it had before the abandoned
\* cycle.
C10_HiddenAsBeforeAbandoned ==
    [][(ParkingCompletes /\ ab.active) =>
          /\ DOMAIN lots' = FetchKeys(parking_lots)
          /\ \A k \in DOMAIN lots' :
                /\ HoldsFresh(lots'[k], parking_lots[LastIdx(parking_lots, k)], k)
                /\ lots'[k].isHidden = Get(ab.hidden, k, FALSE)]_vars

\* C10 amended: after the completed cycle that follows an abandoned one, the
\* stored keys are the keys of the later fetch's named lots, each with the
\* fresh fields of the last fetched lot deriving it and with the isHidden
\* value it had before the abandoned cycle, except that a lot the abandoned
\* cycle had already deleted comes back with isHidden false.
C10_HiddenUnlessDeleted ==
    [][(ParkingCompletes /\ ab.active) =>
          /\ DOMAIN lots' = FetchKeys(parking_lots)
          /\ \A k \in DOMAIN lots' :
                /\ HoldsFresh(lots'[k], parking_lots[LastIdx(parking_lots, k)], k)
                /\ lots'[k].isHidden =
                      (IF k \in ab.deleted THEN FALSE ELSE Get(ab.hidden, k, FALSE))]_vars

\* The cycle after an abandoned one is reconciled; the abandoned cycle had
\* deleted a hidden lot that the later fetch lists again, and had left
\* another hidden lot in place
C10_Witness ==
    /\ ParkingReconciled
    /\ ab.active
    /\ \E k \in ab.deleted \cap DOMAIN lots : ab.hidden[k] /\ ~lots[k].isHidden
    /\ \E k \in DOMAIN lots \ ab.deleted : k \in DOMAIN ab.hidden /\ ab.hidden[k]

----------------------------------------------------------------------------
(* Properties of the event jobs *)

\* The step on which an event job writes its document
EventWrites == ePc \in {"fetched", "named"} /\ ePc' = "idle" /\ eOutcome' = "done"

\* The upstream data the running cycle works on
EventUpstream == [raw |-> raw_events[1], names |-> org_names]

SourceTag == IF job = "calendar" THEN <<"localist_">> ELSE <<"engage_">>

\* C4: an event job that writes on the same upstream data as the write
\* before it leaves the stored items map as it was: same ids, same event for
\* each id.
C4_Idempotent ==
    [][(EventWrites /\ eLast = Some(EventUpstream)) =>
          /\ ItemsOf(calendarEvents') = ItemsOf(calendarEvents)
          /\ ItemsOf(organizationEvents') = ItemsOf(organizationEvents)]_vars

\* A cycle is about to write on the upstream data of the write before it,
\* with two upstream events sharing an id and a document already stored
C4_Witness ==
    /\ ePc \in {"fetched", "named"}
    /\ eLast = Some(EventUpstream)
    /\ Len(raw_events[1]) = 2
    /\ IdText(raw_events[1][1].id) = IdText(raw_events[1][2].id)
    /\ ItemsOf(calendarEvents) # EmptyMap \/ ItemsOf(organizationEvents) # EmptyMap

\* C6: when an event job writes, the stored items are exactly the upstream
\* events that have an id, each under its id: an event without an id is left
\* out and the others are written.
C6_NoIdExcluded ==
    [][EventWrites =>
          LET raw == raw_events[1]
              withId == {i \in 1..Len(raw) : raw[i].id # None}
              stored == IF job = "calendar" THEN ItemsOf(calendarEvents')
                        ELSE ItemsOf(organizationEvents')
          IN  DOMAIN stored = {SourceTag \o IdText(raw[i].id) : i \in withId}]_vars

NoRepeat(xs) == \A i, j \in 1..Len(xs) : xs[i] = xs[j] => i = j

\* C7: the categories of every stored event are absent or a non-empty list
\* in which no name occurs twice.
C7_CategoriesDeduplicated ==
    \A stored \in {calendarEvents, organizationEvents} :
        \A k \in DOMAIN ItemsOf(stored) :
            LET categories == ItemsOf(stored)[k].categories
            IN  categories = None \/ (categories[1] # <<>> /\ NoRepeat(categories[1]))

----------------------------------------------------------------------------
(* Properties of the weather job *)

NoThermometer ==
    /\ wPc = "fetched"
    /\ wData[1].shape # "other"
    /\ "Thermometer" \notin DOMAIN wData[1].readings

\* C5: while a cycle whose readings hold no Thermometer reading runs, the
\* stored weather record stays as it is, and the cycle ends by returning,
\* with the missing temperature or a caught exception logged.
C5_NoTemperatureNoWrite ==
    [][NoThermometer =>
          /\ weather' = weather
          /\ wPc' = "idle" => wOutcome' \in {"noTemperature", "error"}]_vars

\* A cycle holds readings without a Thermometer reading while a record
\* written by an earlier cycle is stored
C5_Witness ==
    /\ NoThermometer
    /\ weather # None
    /\ wData[1].readings # EmptyMap

\* The step on which get_weather writes the record
WeatherWrites == wPc = "fetched" /\ wPc' = "idle" /\ wOutcome' = "done"

\* The rule of the claim, on integers
FeelsLikeRule(t, wc, hi, ws, h) ==
    IF t <= 50 /\ ws > 3 THEN wc
    ELSE IF t >= 80 /\ h > 40 THEN hi
    ELSE t

FeelsLikeTable ==
    \A t \in 48..52 \cup 78..82, wc \in {30, 48}, hi \in {82, 95}, ws \in 2..5, h \in 39..42 :
        determine_feels_like(t, wc, hi, ws, h) = FeelsLikeRule(t, wc, hi, ws, h)

\* C9: determine_feels_like follows the rule (wind chill when temperature
\* <= 50 and wind speed > 3, else heat index when temperature >= 80 and
\* humidity > 40, else the temperature), and the record a cycle writes
\* carries the rule's value for its readings, with the temperature in place
\* of a missing wind chill or heat index and 0 in place of a missing wind
\* speed or humidity.
C9_FeelsLike ==
    [][/\ FeelsLikeTable
       /\ WeatherWrites =>
            LET r == wData[1].readings
                t == r["Thermometer"]
                wc == IF "Wind Chill" \in DOMAIN r THEN r["Wind Chill"] ELSE t
                hi == IF "Heat Index" \in DOMAIN r THEN r["Heat Index"] ELSE t
                ws == IF "Anemometer" \in DOMAIN r THEN r["Anemometer"] ELSE 0
                h == IF "Hygrometer" \in DOMAIN r THEN r["Hygrometer"] ELSE 0
            IN  /\ weather'[1].temperature = t
                /\ weather'[1].feelsLike = FeelsLikeRule(t, wc, hi, ws, h)]_vars

\* Records written with the wind chill, with the heat index, and with the
\* temperature standing in for a missing wind chill
C9_Witness ==
    /\ wOutcome = "done"
    /\ weather # None
    /\ weather[1].temperature = 50
    /\ weather[1].feelsLike = 40
    /\ weather[1].wind.speed = 4

----------------------------------------------------------------------------
(* Properties of the occupancy job *)

\* The four buckets of the claim
StatusIs(status, v) ==
    /\ status = "veryHigh" <=> v >= 80
    /\ status = "high" <=> (50 <= v /\ v < 80)
    /\ status = "moderate" <=> (25 <= v /\ v < 50)
    /\ status = "low" <=> v < 25

StatusTable == \A v \in 0..100 : StatusIs(occupancy_status(v), v)

\* C8: occupancy_status puts every value of 0..100 in the bucket of the
\* claim, and every location and sub-location the job writes carries the
\* occupancy upstream reported (0 when it reported none) and the status of
\* that occupancy.
C8_StatusOfOwnOccupancy ==
    [][/\ StatusTable
       /\ (bPc = "fetched" /\ bPc' = "stamp") =>
            \A k \in DOMAIN busyLocations' :
                \E i \in 1..Len(locations) :
                    LET loc == locations[i]
                        stored == busyLocations'[k]
                    IN  /\ loc.id # None
                        /\ IdText(loc.id) = k
                        /\ stored.occupancy = (IF loc.busyness = None THEN 0 ELSE loc.busyness[1])
                        /\ StatusIs(stored.status, stored.occupancy)
                        /\ Len(stored.subLocations) = Len(loc.subLocs)
                        /\ \A j \in 1..Len(loc.subLocs) :
                              LET sub == stored.subLocations[j]
                              IN  /\ sub.occupancy = (IF loc.subLocs[j].busyness = None THEN 0
                                                      ELSE loc.subLocs[j].busyness[1])
                                  /\ StatusIs(sub.status, sub.occupancy)]_vars

\* Stored: a location at the lower edge of the top bucket with a
\* sub-location that reported no busyness
C8_Witness ==
    \E k \in DOMAIN busyLocations :
        /\ busyLocations[k].occupancy = 80
        /\ busyLocations[k].status = "veryHigh"
        /\ \E j \in 1..Len(busyLocations[k].subLocations) :
              /\ busyLocations[k].subLocations[j].occupancy = 0
              /\ busyLocations[k].subLocations[j].status = "low"

----------------------------------------------------------------------------
(* Properties of the snapshot writes *)

\* the step that ends a cycle of get_live_campus_busyness that had fetched
BusyCycleEnds == bPc \in {"fetched", "stamp"} /\ bPc' = "idle"

\* liveCampusBusyness is, after the step, as it was when the cycle began
BusyStoreAsBefore ==
    /\ busyLocations' = bBefore[1].locations
    /\ busyLastUpdated' = bBefore[1].lastUpdated

\* liveCampusBusyness holds, after the step, the cycle's locations together
\* with the cycle's own lastUpdated
BusyStoreAllNew ==
    /\ busyLocations' = location_updates(locations)
    /\ busyLastUpdated' = Timestamp(now)

\* C11: a cycle changes the store by at most one atomic overwrite: however
\* an occupancy cycle ends, completed or abandoned, liveCampusBusyness is
\* either entirely as it was before the cycle or entirely new (the new
\* locations together with the new lastUpdated), never new locations with
\* the previous lastUpdated.
C11_AtomicOverwrite ==
    [][BusyCycleEnds => (BusyStoreAsBefore \/ BusyStoreAllNew)]_vars

----------------------------------------------------------------------------
(* Properties of todayCount *)

\* The document of the event job under study
EventDoc(cal, org) == IF job = "calendar" THEN cal ELSE org

\* The entries of an items map whose start begins with the date `today`
ItemsToday(items, today) == {k \in DOMAIN items : StartsToday(items[k], today)}

\* C12: after every write of an event job, the stored todayCount is the
\* number of entries of the stored items map whose start begins with
\* today's civil date: the count of the id-deduplicated collection, also
\* when two upstream events of the fetch share an id.
C12_TodayCountOfItems ==
    [][EventWrites =>
          LET doc == EventDoc(calendarEvents', organizationEvents')[1]
          IN  doc.todayCount = Cardinality(ItemsToday(doc.items, Today(now)))]_vars

----------------------------------------------------------------------------
(* Properties of the parking job beside another writer *)

\* C13: when another writer has changed a stored lot's isHidden after the
\* cycle read the stored lots and before the cycle wrote that lot's update,
\* the value the other writer set is the lot's stored isHidden when the
\* cycle ends; the cycle writes back no stale isHidden.
C13_OtherWriterKept ==
    [][ParkingCompletes =>
          \A k \in DOMAIN otherWrites :
              k \in DOMAIN lots' => lots'[k].isHidden = otherWrites[k]]_vars

====
